---- MODULE Spec2Model ----
(***************************************************************************)
(* Delivery assistant: the SQLite store (orders, menu_items, feedback),    *)
(* DatabaseManager.init_database / populate_sample_data, the tool          *)
(* functions of EnhancedDeliveryAssistant, the tool registry, run(), and   *)
(* the Admin Panel forms of the Streamlit app.                             *)
(*                                                                         *)
(* Each client process owns one assistant instance.  A call advances one   *)
(* store statement at a time, so that calls of different processes         *)
(* interleave between statements, as separate connections to one SQLite    *)
(* file do.  Python code between two statements is local to the call and   *)
(* is folded into the statement that follows it.                           *)
(***************************************************************************)
EXTENDS Integers, Sequences, FiniteSets, TLC

(* ---------------- bounds of the model ---------------- *)

\* feedback rows the store may hold
MaxFeedback == 2
\* menu items the Admin Panel may add
MaxMenuAdds == 1

(* ---------------- inputs ---------------- *)

\* The argument strings the dispatcher passes to the tools, the queries of
\* the read-only tools, and what the Admin Panel's Add Order form submits.

TrackArgs == {"1023", "3051", "77", "abc"}
CancelArgs == {"1023", " 2042", "3051", "77", "abc", ""}
FeedbackArgs ==
  {"1023,5,ok", "2042, 9", "77,0,bad", "77,4", "abc,9", "3051,x", "1023"}
MenuArgs == {"pizza", "basil", "sushi"}
HistoryArgs == {"John", "Zed"}
RestaurantArgs == {"Pizza", "Zed"}
UnregisteredArgs == {"1023,Caesar Salad"}
\* datetime.now() when track_order reads it, in minutes since the store was
\* seeded.
Nows == {0, 20}
AdminOrderIds == {3051, 77}
AdminStatuses == {"preparing"}

(* ---------------- text ---------------- *)

\* The characters of the texts the model uses.  State holds texts as
\* strings; the code's text operations (int(), split(), LIKE, lower())
\* work on their characters.
Chars(s) ==
  CASE s = "" ->
         <<>>
    [] s = "1023" ->
         <<"1","0","2","3">>
    [] s = "2042" ->
         <<"2","0","4","2">>
    [] s = " 2042" ->
         <<" ","2","0","4","2">>
    [] s = "3051" ->
         <<"3","0","5","1">>
    [] s = "77" ->
         <<"7","7">>
    [] s = "abc" ->
         <<"a","b","c">>
    [] s = "1023,5,ok" ->
         <<"1","0","2","3",",","5",",","o","k">>
    [] s = "2042, 9" ->
         <<"2","0","4","2",","," ","9">>
    [] s = "77,0,bad" ->
         <<"7","7",",","0",",","b","a","d">>
    [] s = "77,4" ->
         <<"7","7",",","4">>
    [] s = "abc,9" ->
         <<"a","b","c",",","9">>
    [] s = "3051,x" ->
         <<"3","0","5","1",",","x">>
    [] s = "5" ->
         <<"5">>
    [] s = " 9" ->
         <<" ","9">>
    [] s = "9" ->
         <<"9">>
    [] s = "0" ->
         <<"0">>
    [] s = "4" ->
         <<"4">>
    [] s = "x" ->
         <<"x">>
    [] s = "ok" ->
         <<"o","k">>
    [] s = "bad" ->
         <<"b","a","d">>
    [] s = "pizza" ->
         <<"p","i","z","z","a">>
    [] s = "Pizza" ->
         <<"P","i","z","z","a">>
    [] s = "burger" ->
         <<"b","u","r","g","e","r">>
    [] s = "pasta" ->
         <<"p","a","s","t","a">>
    [] s = "basil" ->
         <<"b","a","s","i","l">>
    [] s = "sushi" ->
         <<"s","u","s","h","i">>
    [] s = "John" ->
         <<"J","o","h","n">>
    [] s = "Zed" ->
         <<"Z","e","d">>
    [] s = "John Doe" ->
         <<"J","o","h","n"," ","D","o","e">>
    [] s = "Jane Smith" ->
         <<"J","a","n","e"," ","S","m","i","t","h">>
    [] s = "Bob Johnson" ->
         <<"B","o","b"," ","J","o","h","n","s","o","n">>
    [] s = "Mario's Pizza" ->
         <<"M","a","r","i","o","'","s"," ","P","i","z","z","a">>
    [] s = "Burger Palace" ->
         <<"B","u","r","g","e","r"," ","P","a","l","a","c","e">>
    [] s = "Pasta House" ->
         <<"P","a","s","t","a"," ","H","o","u","s","e">>
    [] s = "Margherita Pizza" ->
         <<"M","a","r","g","h","e","r","i","t","a"," ","P","i","z","z","a">>
    [] s = "Cheeseburger" ->
         <<"C","h","e","e","s","e","b","u","r","g","e","r">>
    [] s = "Chicken Alfredo" ->
         <<"C","h","i","c","k","e","n"," ","A","l","f","r","e","d","o">>
    [] s = "Caesar Salad" ->
         <<"C","a","e","s","a","r"," ","S","a","l","a","d">>
    [] s = "Garlic Bread" ->
         <<"G","a","r","l","i","c"," ","B","r","e","a","d">>
    [] s = "Classic tomato sauce, mozzarella, basil" ->
         <<"C","l","a","s","s","i","c"," ","t","o","m","a","t","o"," ","s","a","u","c","e",","," ","m","o","z","z","a","r","e","l","l","a",","," ","b","a","s","i","l">>
    [] s = "Beef patty, cheese, lettuce, tomato" ->
         <<"B","e","e","f"," ","p","a","t","t","y",","," ","c","h","e","e","s","e",","," ","l","e","t","t","u","c","e",","," ","t","o","m","a","t","o">>
    [] s = "Grilled chicken, creamy alfredo sauce" ->
         <<"G","r","i","l","l","e","d"," ","c","h","i","c","k","e","n",","," ","c","r","e","a","m","y"," ","a","l","f","r","e","d","o"," ","s","a","u","c","e">>
    [] s = "Romaine lettuce, croutons, parmesan" ->
         <<"R","o","m","a","i","n","e"," ","l","e","t","t","u","c","e",","," ","c","r","o","u","t","o","n","s",","," ","p","a","r","m","e","s","a","n">>
    [] s = "Margherita Pizza, Garlic Bread" ->
         <<"M","a","r","g","h","e","r","i","t","a"," ","P","i","z","z","a",","," ","G","a","r","l","i","c"," ","B","r","e","a","d">>
    [] s = "Cheeseburger, Fries, Coke" ->
         <<"C","h","e","e","s","e","b","u","r","g","e","r",","," ","F","r","i","e","s",","," ","C","o","k","e">>
    [] s = "Chicken Alfredo, Caesar Salad" ->
         <<"C","h","i","c","k","e","n"," ","A","l","f","r","e","d","o",","," ","C","a","e","s","a","r"," ","S","a","l","a","d">>
    [] s = "Toasted bread, garlic butter" ->
         <<"T","o","a","s","t","e","d"," ","b","r","e","a","d",","," ","g","a","r","l","i","c"," ","b","u","t","t","e","r">>


\* The texts that split() yields from the argument strings.
PartTexts ==
  {"", "1023", "2042", " 2042", "3051", "77", "abc", "5", " 9", "9", "0", "4",
   "x", "ok", "bad"}

\* The text with the given characters.
Text(cs) == CHOOSE s \in PartTexts : Chars(s) = cs

\* The texts held in the store's name and description columns.
StoreTexts ==
  {"John Doe", "Jane Smith", "Bob Johnson",
   "Mario's Pizza", "Burger Palace", "Pasta House",
   "Margherita Pizza", "Cheeseburger", "Chicken Alfredo", "Caesar Salad",
   "Garlic Bread",
   "Classic tomato sauce, mozzarella, basil",
   "Beef patty, cheese, lettuce, tomato",
   "Grilled chicken, creamy alfredo sauce",
   "Romaine lettuce, croutons, parmesan",
   "Toasted bread, garlic butter"}

Digits == {"0","1","2","3","4","5","6","7","8","9"}

DigitVal(c) ==
  CASE c = "0" -> 0 [] c = "1" -> 1 [] c = "2" -> 2 [] c = "3" -> 3
    [] c = "4" -> 4 [] c = "5" -> 5 [] c = "6" -> 6 [] c = "7" -> 7
    [] c = "8" -> 8 [] c = "9" -> 9

\* ASCII lower-casing of one character (SQLite LIKE and str.lower()).
LowerChar(c) ==
  CASE c = "A" -> "a" [] c = "B" -> "b" [] c = "C" -> "c" [] c = "D" -> "d"
    [] c = "E" -> "e" [] c = "F" -> "f" [] c = "G" -> "g" [] c = "H" -> "h"
    [] c = "I" -> "i" [] c = "J" -> "j" [] c = "K" -> "k" [] c = "L" -> "l"
    [] c = "M" -> "m" [] c = "N" -> "n" [] c = "O" -> "o" [] c = "P" -> "p"
    [] c = "Q" -> "q" [] c = "R" -> "r" [] c = "S" -> "s" [] c = "T" -> "t"
    [] c = "U" -> "u" [] c = "V" -> "v" [] c = "W" -> "w" [] c = "X" -> "x"
    [] c = "Y" -> "y" [] c = "Z" -> "z"
    [] OTHER -> c

Lower(cs) == [i \in 1..Len(cs) |-> LowerChar(cs[i])]

\* str.strip(): leading and trailing blanks removed (int() does this).
RECURSIVE StripLeft(_)
StripLeft(cs) ==
  IF cs # << >> /\ Head(cs) = " " THEN StripLeft(Tail(cs)) ELSE cs

RECURSIVE StripRight(_)
StripRight(cs) ==
  IF cs # << >> /\ cs[Len(cs)] = " "
  THEN StripRight(SubSeq(cs, 1, Len(cs) - 1)) ELSE cs

RECURSIVE DigitsValue(_, _)
DigitsValue(cs, acc) ==
  IF cs = << >> THEN acc
  ELSE DigitsValue(Tail(cs), 10 * acc + DigitVal(Head(cs)))

\* A value no int() result equals: int() raised ValueError.
ValueError == -1000000

IntOfChars(cs) ==
  LET t    == StripRight(StripLeft(cs))
      neg  == t # << >> /\ Head(t) = "-"
      body == IF t # << >> /\ Head(t) \in {"-", "+"} THEN Tail(t) ELSE t
  IN  IF body # << >> /\ \A i \in 1..Len(body) : body[i] \in Digits
      THEN (IF neg THEN -1 ELSE 1) * DigitsValue(body, 0)
      ELSE ValueError

\* int(text) of every text the calls convert (computed once).
ParseTable ==
  [s \in TrackArgs \cup CancelArgs \cup PartTexts |-> IntOfChars(Chars(s))]

\* Python int(text): the integer, or ValueError.
ParseInt(s) == ParseTable[s]

\* Index of the first c in cs, 0 when there is none.
RECURSIVE FindChar(_, _, _)
FindChar(cs, c, i) ==
  IF i > Len(cs) THEN 0
  ELSE IF cs[i] = c THEN i
  ELSE FindChar(cs, c, i + 1)

\* str.split(sep, maxsplit) on characters.
RECURSIVE SplitChars(_, _, _)
SplitChars(cs, sep, maxsplit) ==
  LET k == FindChar(cs, sep, 1)
  IN  IF maxsplit = 0 \/ k = 0 THEN << cs >>
      ELSE << SubSeq(cs, 1, k - 1) >>
             \o SplitChars(SubSeq(cs, k + 1, Len(cs)), sep, maxsplit - 1)

\* x.split(',', 2) of every argument string (computed once).
SplitTable ==
  [x \in FeedbackArgs |->
     LET parts == SplitChars(Chars(x), ",", 2)
     IN  [i \in 1..Len(parts) |-> Text(parts[i])]]

\* x.split(',', 2) of the submit_feedback tool, as texts.
SplitArg(x) == SplitTable[x]

\* q occurs in t as a contiguous run of characters.
Occurs(q, t) == \E i \in 0..(Len(t) - Len(q)) : SubSeq(t, i + 1, i + Len(q)) = q

\* text LIKE '%pattern%' for every stored text and query (computed once).
LikeTable ==
  [text \in StoreTexts, pattern \in MenuArgs \cup HistoryArgs \cup RestaurantArgs |->
     Occurs(Lower(Chars(pattern)), Lower(Chars(text)))]

\* pattern occurs in text, ignoring ASCII case: text LIKE '%pattern%'.
Like(text, pattern) == LikeTable[text, pattern]

\* word in text.lower() for every query (computed once).
InLowerTable ==
  [word \in {"burger", "pizza", "pasta"}, text \in MenuArgs |->
     Occurs(Chars(word), Lower(Chars(text)))]

\* word in text.lower() (get_menu_recommendation's fallback).
InLower(word, text) == InLowerTable[word, text]

(* ---------------- the store ---------------- *)

\* Money is held in cents (order_total REAL 24.99 is 2499).
\* Times are minutes since the store was seeded: estimated_delivery is
\* datetime.now() + timedelta(minutes = e) at that moment, created_at the
\* column's default CURRENT_TIMESTAMP.
Order(c, i, s, e, r, t) ==
  [customer |-> c, items |-> i, status |-> s, eta |-> e, restaurant |-> r,
   total |-> t, created |-> 0]

MenuItem(n, c, p, d, r) ==
  [name |-> n, category |-> c, price |-> p, description |-> d, pairings |-> r]

sample_orders ==
  (1023 :> Order("John Doe", "Margherita Pizza, Garlic Bread", "in_transit",
                 15, "Mario's Pizza", 2499))
  @@ (2042 :> Order("Jane Smith", "Cheeseburger, Fries, Coke", "preparing",
                    25, "Burger Palace", 1850))
  @@ (3051 :> Order("Bob Johnson", "Chicken Alfredo, Caesar Salad", "delivered",
                    -30, "Pasta House", 2275))

sample_menu ==
  << MenuItem("Margherita Pizza", "Pizza", 1899,
              "Classic tomato sauce, mozzarella, basil",
              "Garlic Bread, Caesar Salad, Red Wine"),
     MenuItem("Cheeseburger", "Burger", 1299,
              "Beef patty, cheese, lettuce, tomato",
              "Fries, Onion Rings, Milkshake"),
     MenuItem("Chicken Alfredo", "Pasta", 1699,
              "Grilled chicken, creamy alfredo sauce",
              "Garlic Bread, House Salad, White Wine"),
     MenuItem("Caesar Salad", "Salad", 899,
              "Romaine lettuce, croutons, parmesan",
              "Soup, Breadsticks, Iced Tea") >>

\* The item the Admin Panel's Add Menu Item form submits in this model.
AdminMenuItem ==
  MenuItem("Garlic Bread", "Side", 599, "Toasted bread, garlic butter", "Soup")

Statuses == {"preparing", "in_transit", "delivered", "cancelled"}
TerminalStatuses == {"delivered", "cancelled"}

\* The database file before any table exists.
EmptyStore ==
  [tables |-> FALSE, orders |-> << >>, menu |-> << >>, feedback |-> << >>]

\* Mutant: the tables are dropped and created anew on every start.
CreateTablesAnew(d) == [EmptyStore EXCEPT !.tables = TRUE]

\* CREATE TABLE IF NOT EXISTS orders / menu_items / feedback.
CreateTablesIfNotExists(d) ==
  IF d.tables THEN d ELSE [EmptyStore EXCEPT !.tables = TRUE]

(* ---------------- state ---------------- *)

VARIABLES
  db,      \* the committed contents of the database file
  wdb,     \* the contents as the connection holding the write lock sees them
  wlock,   \* the connection holding SQLite's write lock
  pc,      \* each process's position: "idle" or the statement it runs next
  inited,  \* the process has constructed its assistant (init_database ran)
  loc,     \* the local variables of the process's call in progress
  last     \* the call that returned most recently, and what it returned

vars == <<db, wdb, wlock, pc, inited, loc, last>>

\* The two client processes (a chat/CLI session each).
Procs == {1, 2}

NoLock == [owner |-> 0, leaked |-> FALSE]
Cur(p) == [owner |-> p, leaked |-> FALSE]
\* The lock is held by a connection that a returned call left open.
LeakedLock == [owner |-> 0, leaked |-> TRUE]

\* What a statement on p's connection reads.
View(p) == IF wlock = Cur(p) THEN wdb ELSE db

\* A writing statement waits (busy) while another connection holds the lock.
CanWrite(p) == wlock = NoLock \/ wlock = Cur(p)

NoLoc ==
  [arg |-> "", oid |-> 0, status |-> "", total |-> 0, rating |-> 0, comments |-> ""]

\* A returned string: message template m with its order id n, text s, amount v.
\* ids are the order ids the string lists, texts its further parts.
StrRows(m, n, s, v, ids, texts) ==
  [t |-> "str", m |-> m, n |-> n, s |-> s, v |-> v, ids |-> ids, texts |-> texts]
Str(m, n, s, v) == StrRows(m, n, s, v, << >>, << >>)
\* An exception raised to the caller.
Raised(e) ==
  [t |-> "raise", m |-> e, n |-> 0, s |-> "", v |-> 0, ids |-> << >>, texts |-> << >>]
\* No tool function ran (or the operation returns nothing).
NoRet ==
  [t |-> "none", m |-> "", n |-> 0, s |-> "", v |-> 0, ids |-> << >>, texts |-> << >>]

\* A returned call: who made it, the operation and its argument string, what
\* the operation gave its caller, what run() gave its caller, and whether
\* the connection the call opened is still open.
Call(p, name, x, r, rr, open) ==
  [p |-> p, op |-> name, arg |-> x, ret |-> r, runret |-> rr, open |-> open]
NoCall == Call(0, "none", "", NoRet, "none", FALSE)

Init ==
  /\ db = EmptyStore
  /\ wdb = EmptyStore
  /\ wlock = NoLock
  /\ pc = [p \in Procs |-> "idle"]
  /\ inited = [p \in Procs |-> FALSE]
  /\ loc = [p \in Procs |-> NoLoc]
  /\ last = NoCall

(* ---------------- run() and the tool registry ---------------- *)

\* _create_agent: the names under which tools are registered.
Tools ==
  {"track_order", "cancel_order", "get_menu_recommendation",
   "get_order_history", "submit_feedback", "get_restaurant_info"}

\* self.agent.run(query): a tool that raises makes the dispatcher raise;
\* otherwise it replies.  The dispatcher's own failures (the model server
\* is unreachable) are those of a query for which no tool function ran.
AgentRun(toolret) ==
  IF toolret.t = "raise" THEN {"raise"}
  ELSE IF toolret.t = "none" THEN {"reply", "raise"}
  ELSE {"reply"}

\* Mutant: run() without its try/except.
run_uncaught(outcome) == outcome

\* run(): try: return self.agent.run(query) / except Exception: apology.
run(outcome) == IF outcome = "raise" THEN "apology" ELSE outcome

\* run(query) is called and the dispatcher asks for a tool.
Begin(p) ==
  /\ pc[p] = "idle"
  /\ inited[p]

\* The tool gives r to the dispatcher, and run() returns; open tells
\* whether the tool returned without closing its connection.
Return(p, name, x, r, open) ==
  /\ \E a \in AgentRun(r) : last' = Call(p, name, x, r, run(a), open)
  /\ pc' = [pc EXCEPT ![p] = "idle"]
  /\ loc' = [loc EXCEPT ![p] = NoLoc]

\* The tool returns r on a path that has closed its connection, or that
\* never opened one.
Finish(p, name, x, r) == Return(p, name, x, r, FALSE)

\* The call goes on to its next statement.
Goto(p, label, l) ==
  /\ pc' = [pc EXCEPT ![p] = label]
  /\ loc' = [loc EXCEPT ![p] = l]
  /\ last' = IF last.p = p THEN NoCall ELSE last

\* conn.commit(): what p wrote becomes the committed contents; without an
\* open transaction it does nothing.
Commit(p) ==
  /\ db' = IF wlock = Cur(p) THEN wdb ELSE db
  /\ wlock' = IF wlock = Cur(p) THEN NoLock ELSE wlock
  /\ UNCHANGED wdb

\* conn.close() without commit: what p wrote is rolled back.
Rollback(p) ==
  /\ wdb' = IF wlock = Cur(p) THEN db ELSE wdb
  /\ wlock' = IF wlock = Cur(p) THEN NoLock ELSE wlock
  /\ UNCHANGED db

(* ---------------- init_database / populate_sample_data ---------------- *)

\* EnhancedDeliveryAssistant(): DatabaseManager.__init__ -> init_database,
\* the three CREATE TABLE IF NOT EXISTS, commit, close.  (The tables are
\* created together: no call reads the store before its own process has
\* run all three.)
Construct(p) ==
  /\ pc[p] = "idle"
  /\ db.tables \/ wlock = NoLock
  /\ db' = CreateTablesIfNotExists(db)
  /\ wdb' = IF wlock = NoLock THEN CreateTablesIfNotExists(db) ELSE wdb
  /\ Goto(p, "p_count", NoLoc)
  /\ UNCHANGED <<wlock, inited>>

\* if cursor.fetchone()[0] > 0: return
HasData(count) == count > 0

\* populate_sample_data returns; init_database and the constructor with it.
\* how tells the way it went: "has_data" (the count was positive), "seeded"
\* (it committed the sample rows) or "error" (sqlite3.Error was logged).
InitDone(p, how) ==
  /\ pc' = [pc EXCEPT ![p] = "idle"]
  /\ inited' = [inited EXCEPT ![p] = TRUE]
  /\ last' = Call(p, "init_database", how, NoRet, "none", FALSE)
  /\ UNCHANGED loc

\* SELECT COUNT(*) FROM orders
PopulateCount(p) ==
  /\ pc[p] = "p_count"
  /\ View(p).tables
  /\ IF HasData(Cardinality(DOMAIN View(p).orders))
     THEN InitDone(p, "has_data")
     ELSE /\ pc' = [pc EXCEPT ![p] = "p_orders"]
          /\ UNCHANGED <<inited, loc, last>>
  /\ UNCHANGED <<db, wdb, wlock>>

\* Mutant: order_id is no key of the table.
NoPrimaryKey(d, rows) == FALSE

\* order_id INTEGER PRIMARY KEY: inserting rows clashes when one of their
\* ids is in the table.
PrimaryKeyClash(d, rows) == DOMAIN rows \cap DOMAIN d.orders # {}

\* executemany(INSERT INTO orders ...): a primary key already present
\* raises IntegrityError, caught as sqlite3.Error; finally closes.
PopulateOrders(p) ==
  /\ pc[p] = "p_orders"
  /\ CanWrite(p)
  /\ IF PrimaryKeyClash(View(p), sample_orders)
     THEN /\ Rollback(p)
          /\ InitDone(p, "error")
     ELSE /\ wdb' = [View(p) EXCEPT !.orders = @ @@ sample_orders]
          /\ wlock' = Cur(p)
          /\ pc' = [pc EXCEPT ![p] = "p_menu"]
          /\ UNCHANGED <<db, inited, loc, last>>

\* executemany(INSERT INTO menu_items ...)
PopulateMenu(p) ==
  /\ pc[p] = "p_menu"
  /\ wdb' = [wdb EXCEPT !.menu = @ \o sample_menu]
  /\ pc' = [pc EXCEPT ![p] = "p_commit"]
  /\ UNCHANGED <<db, wlock, inited, loc, last>>

\* conn.commit(); finally: conn.close()
PopulateCommit(p) ==
  /\ pc[p] = "p_commit"
  /\ Commit(p)
  /\ InitDone(p, "seeded")

(* ---------------- track_order ---------------- *)

\* time_msg: if est_time and status != "delivered": " - ETA: n minutes"
\* when est_time - datetime.now() is positive, else " - Should arrive any
\* moment!"; "" otherwise.  (Every stored estimated_delivery is an ISO
\* timestamp, so est_time is set.)
time_msg(order, now) ==
  IF order.status # "delivered"
  THEN IF order.eta - now > 0 THEN "eta_minutes" ELSE "any_moment"
  ELSE ""

\* int(time_remaining.total_seconds() / 60), where the ETA is in minutes.
minutes(order, now) ==
  IF time_msg(order, now) = "eta_minutes" THEN order.eta - now ELSE 0

\* The reply: order id, status phrase and time_msg, restaurant, items.
track_order(d, x, now) ==
  LET order_id == ParseInt(x)
  IN  IF order_id = ValueError
      THEN Str("invalid_order_id", 0, "", 0)
      ELSE IF order_id \notin DOMAIN d.orders
      THEN Str("order_not_found", order_id, "", 0)
      ELSE StrRows("status_update", order_id, d.orders[order_id].status,
                   minutes(d.orders[order_id], now), << >>,
                   << time_msg(d.orders[order_id], now),
                      d.orders[order_id].restaurant,
                      d.orders[order_id].items >>)

RunTrack(p, x) ==
  /\ Begin(p)
  /\ ParseInt(x) # ValueError => View(p).tables
  /\ \E now \in Nows : Finish(p, "track_order", x, track_order(View(p), x, now))
  /\ UNCHANGED <<db, wdb, wlock, inited>>

(* ---------------- cancel_order ---------------- *)

\* Mutant: the id is converted only where the row is looked up.
cancel_precheck_unvalidated(x) ==
  IF x = "" THEN "need_order_id" ELSE "select"

\* What cancel_order does before it touches the store.
cancel_precheck(x) ==
  IF x = "" THEN "need_order_id"
  ELSE IF ParseInt(x) = ValueError THEN "invalid_order_id"
  ELSE "select"

\* Mutant: no check for an order that is already cancelled.
cancel_decision_recancels(d, order_id) ==
  IF order_id \notin DOMAIN d.orders THEN "order_not_found"
  ELSE IF d.orders[order_id].status = "delivered" THEN "already_delivered"
  ELSE "update"

\* Mutant: no check for an order that is already delivered.
cancel_decision_undelivers(d, order_id) ==
  IF order_id \notin DOMAIN d.orders THEN "order_not_found"
  ELSE IF d.orders[order_id].status = "cancelled" THEN "already_cancelled"
  ELSE "update"

\* What cancel_order does with the row its SELECT fetched.
cancel_decision(d, order_id) ==
  IF order_id \notin DOMAIN d.orders THEN "order_not_found"
  ELSE IF d.orders[order_id].status = "delivered" THEN "already_delivered"
  ELSE IF d.orders[order_id].status = "cancelled" THEN "already_cancelled"
  ELSE "update"

RunCancel(p, x) ==
  /\ Begin(p)
  /\ IF cancel_precheck(x) # "select"
     THEN Finish(p, "cancel_order", x, Str(cancel_precheck(x), 0, "", 0))
     ELSE /\ View(p).tables
          /\ LET order_id == ParseInt(x)
                 d == View(p)
             IN  IF cancel_decision(d, order_id) # "update"
                 THEN Finish(p, "cancel_order", x,
                             Str(cancel_decision(d, order_id), order_id, "", 0))
                 ELSE Goto(p, "c_update",
                           [NoLoc EXCEPT !.arg = x,
                                         !.oid = order_id,
                                         !.status = d.orders[order_id].status,
                                         !.total = d.orders[order_id].total])
  /\ UNCHANGED <<db, wdb, wlock, inited>>

\* Mutant: the UPDATE has no WHERE clause.
CancelUpdateAllRows(p) ==
  /\ pc[p] = "c_update"
  /\ CanWrite(p)
  /\ wdb' = [View(p) EXCEPT !.orders =
               [o \in DOMAIN @ |-> [@[o] EXCEPT !.status = "cancelled"]]]
  /\ wlock' = Cur(p)
  /\ pc' = [pc EXCEPT ![p] = "c_commit"]
  /\ UNCHANGED <<db, inited, loc, last>>

\* Mutant: the order is cancelled by deleting its row.
CancelUpdateDeletes(p) ==
  /\ pc[p] = "c_update"
  /\ CanWrite(p)
  /\ wdb' = [View(p) EXCEPT !.orders =
               [o \in DOMAIN @ \ {loc[p].oid} |-> @[o]]]
  /\ wlock' = Cur(p)
  /\ pc' = [pc EXCEPT ![p] = "c_commit"]
  /\ UNCHANGED <<db, inited, loc, last>>

\* Mutant: the UPDATE matches no row (nothing is written).
CancelUpdateNoRow(p) ==
  /\ pc[p] = "c_update"
  /\ CanWrite(p)
  /\ wdb' = View(p)
  /\ wlock' = Cur(p)
  /\ pc' = [pc EXCEPT ![p] = "c_commit"]
  /\ UNCHANGED <<db, inited, loc, last>>

\* UPDATE orders SET status = 'cancelled' WHERE order_id = ?
CancelUpdate(p) ==
  /\ pc[p] = "c_update"
  /\ CanWrite(p)
  /\ wdb' = [View(p) EXCEPT !.orders[loc[p].oid].status = "cancelled"]
  /\ wlock' = Cur(p)
  /\ pc' = [pc EXCEPT ![p] = "c_commit"]
  /\ UNCHANGED <<db, inited, loc, last>>

\* Mutant: the call looks at the stored status again before it commits, and
\* gives up when the order has been cancelled meanwhile.
CancelCommitChecks(p) ==
  /\ pc[p] = "c_commit"
  /\ IF db.orders[loc[p].oid].status = "cancelled"
     THEN /\ Rollback(p)
          /\ Finish(p, "cancel_order", loc[p].arg,
                    Str("already_cancelled", loc[p].oid, "", 0))
     ELSE /\ Commit(p)
          /\ Finish(p, "cancel_order", loc[p].arg,
                    Str("cancel_success", loc[p].oid, "", loc[p].total))
  /\ UNCHANGED inited

\* conn.commit(); conn.close(); the refund message.
CancelCommit(p) ==
  /\ pc[p] = "c_commit"
  /\ Commit(p)
  /\ Finish(p, "cancel_order", loc[p].arg,
            Str("cancel_success", loc[p].oid, "", loc[p].total))
  /\ UNCHANGED inited

(* ---------------- submit_feedback ---------------- *)

\* Mutant: the range check lets a rating of 0 through (< 0 for < 1).
feedback_precheck_zero(order_id, rating) ==
  IF ParseInt(order_id) = ValueError \/ ParseInt(rating) = ValueError
  THEN "invalid_id_or_rating"
  ELSE IF ParseInt(rating) < 0 \/ ParseInt(rating) > 5
  THEN "rating_out_of_range"
  ELSE "select"

\* Mutant: the range check has no upper end.
feedback_precheck_no_max(order_id, rating) ==
  IF ParseInt(order_id) = ValueError \/ ParseInt(rating) = ValueError
  THEN "invalid_id_or_rating"
  ELSE IF ParseInt(rating) < 1
  THEN "rating_out_of_range"
  ELSE "select"

\* What submit_feedback does before it touches the store.
feedback_precheck(order_id, rating) ==
  IF ParseInt(order_id) = ValueError \/ ParseInt(rating) = ValueError
  THEN "invalid_id_or_rating"
  ELSE IF ParseInt(rating) < 1 \/ ParseInt(rating) > 5
  THEN "rating_out_of_range"
  ELSE "select"

\* The registered tool: lambda x: self.submit_feedback(*x.split(',', 2)).
\* With fewer than two parts the call itself raises TypeError (rating is a
\* required positional argument).
feedback_tool(x) ==
  LET parts == SplitArg(x)
  IN  IF Len(parts) < 2 THEN "TypeError"
      ELSE feedback_precheck(parts[1], parts[2])

FeedbackOrder(x) == ParseInt(SplitArg(x)[1])
FeedbackRating(x) == ParseInt(SplitArg(x)[2])
FeedbackComments(x) == IF Len(SplitArg(x)) > 2 THEN SplitArg(x)[3] ELSE ""

\* Calls that are between submit_feedback's SELECT and its commit.
FeedbackInFlight == Cardinality({q \in Procs : pc[q] \in {"f_insert", "f_commit"}})

RunFeedback(p, x) ==
  /\ Begin(p)
  /\ IF feedback_tool(x) = "TypeError"
     THEN Finish(p, "submit_feedback", x, Raised("TypeError"))
     ELSE IF feedback_tool(x) # "select"
     THEN Finish(p, "submit_feedback", x, Str(feedback_tool(x), 0, "", 0))
     ELSE /\ View(p).tables
          /\ IF FeedbackOrder(x) \notin DOMAIN View(p).orders
             THEN Finish(p, "submit_feedback", x,
                         Str("order_not_found", FeedbackOrder(x), "", 0))
             ELSE /\ Len(db.feedback) + FeedbackInFlight < MaxFeedback
                  /\ Goto(p, "f_insert",
                          [NoLoc EXCEPT !.arg = x,
                                        !.oid = FeedbackOrder(x),
                                        !.rating = FeedbackRating(x),
                                        !.comments = FeedbackComments(x)])
  /\ UNCHANGED <<db, wdb, wlock, inited>>

\* INSERT INTO feedback (order_id, rating, comments) VALUES (?, ?, ?)
FeedbackInsert(p) ==
  /\ pc[p] = "f_insert"
  /\ CanWrite(p)
  /\ wdb' = [View(p) EXCEPT !.feedback =
               Append(@, [order_id |-> loc[p].oid, rating |-> loc[p].rating,
                          comments |-> loc[p].comments])]
  /\ wlock' = Cur(p)
  /\ pc' = [pc EXCEPT ![p] = "f_commit"]
  /\ UNCHANGED <<db, inited, loc, last>>

\* conn.commit(); conn.close(); the thank-you message.
FeedbackCommit(p) ==
  /\ pc[p] = "f_commit"
  /\ Commit(p)
  /\ Finish(p, "submit_feedback", loc[p].arg,
            Str("feedback_thanks", loc[p].oid, loc[p].comments, loc[p].rating))
  /\ UNCHANGED inited

(* ---------------- the read-only tools ---------------- *)

\* name LIKE ? UNION ALL (description LIKE ? AND name NOT LIKE ?) LIMIT 1,
\* else the keyword fallback.
get_menu_recommendation(d, food_item) ==
  LET byName == SelectSeq(d.menu, LAMBDA r : Like(r.name, food_item))
      byDesc == SelectSeq(d.menu, LAMBDA r : Like(r.description, food_item)
                                             /\ ~Like(r.name, food_item))
      rows   == byName \o byDesc
  IN  IF rows # << >>
      THEN Str("menu_item", 0, rows[1].name, rows[1].price)
      ELSE IF InLower("burger", food_item) THEN Str("fallback_burger", 0, "", 0)
      ELSE IF InLower("pizza", food_item) THEN Str("fallback_pizza", 0, "", 0)
      ELSE IF InLower("pasta", food_item) THEN Str("fallback_pasta", 0, "", 0)
      ELSE Str("fallback_generic", 0, food_item, 0)

RunMenu(p, x) ==
  /\ Begin(p)
  /\ View(p).tables
  /\ Finish(p, "get_menu_recommendation", x, get_menu_recommendation(View(p), x))
  /\ UNCHANGED <<db, wdb, wlock, inited>>

Min(a, b) == IF a < b THEN a ELSE b

\* Mutant: ORDER BY created_at ASC.
RECURSIVE OldestFirst(_, _, _)
OldestFirst(d, S, k) ==
  IF k = 0 \/ S = {} THEN {<< >>}
  ELSE LET oldest == {o \in S : \A q \in S : d.orders[o].created <= d.orders[q].created}
       IN  UNION {{<<o>> \o rest : rest \in OldestFirst(d, S \ {o}, k - 1)} : o \in oldest}

\* ORDER BY created_at DESC LIMIT k over the rows S: the row sequences the
\* query may yield (SQL leaves the order of rows with equal created_at open).
RECURSIVE NewestFirst(_, _, _)
NewestFirst(d, S, k) ==
  IF k = 0 \/ S = {} THEN {<< >>}
  ELSE LET newest == {o \in S : \A q \in S : d.orders[o].created >= d.orders[q].created}
       IN  UNION {{<<o>> \o rest : rest \in NewestFirst(d, S \ {o}, k - 1)} : o \in newest}

\* WHERE customer_name LIKE ? ORDER BY created_at DESC LIMIT 5: the replies
\* the call may give, each listing the fetched orders in their order.
get_order_history(d, customer_name) ==
  LET hits == {o \in DOMAIN d.orders : Like(d.orders[o].customer, customer_name)}
  IN  IF hits = {}
      THEN {Str("no_orders_found", 0, customer_name, 0)}
      ELSE {StrRows("order_history", Len(rows), customer_name, 0, rows, << >>) :
              rows \in NewestFirst(d, hits, 5)}

RunHistory(p, x) ==
  /\ Begin(p)
  /\ View(p).tables
  /\ \E r \in get_order_history(View(p), x) : Finish(p, "get_order_history", x, r)
  /\ UNCHANGED <<db, wdb, wlock, inited>>

\* WHERE restaurant_name LIKE ? GROUP BY restaurant_name
get_restaurant_info(d, restaurant_name) ==
  LET hits == {d.orders[o].restaurant : o \in
                 {o \in DOMAIN d.orders : Like(d.orders[o].restaurant, restaurant_name)}}
  IN  IF hits = {}
      THEN Str("no_restaurant_info", 0, restaurant_name, 0)
      ELSE Str("restaurant_info", Cardinality(hits), restaurant_name, 0)

RunRestaurant(p, x) ==
  /\ Begin(p)
  /\ View(p).tables
  /\ Finish(p, "get_restaurant_info", x, get_restaurant_info(View(p), x))
  /\ UNCHANGED <<db, wdb, wlock, inited>>

(* ---------------- the dispatcher without a tool function ---------------- *)

\* The dispatcher answers, or fails, without calling a tool.
RunNoTool(p) ==
  /\ Begin(p)
  /\ Finish(p, "none", "", NoRet)
  /\ UNCHANGED <<db, wdb, wlock, inited>>

\* Tool names the dispatcher may ask for that _create_agent does not register.
UnregisteredNames == {"update_order_with_recommendation"}

\* The dispatcher asks for a name that is not registered: no function runs.
RunUnregistered(p, name, x) ==
  /\ name \notin Tools
  /\ Begin(p)
  /\ Finish(p, name, x, NoRet)
  /\ UNCHANGED <<db, wdb, wlock, inited>>

(* ---------------- the Admin Panel ---------------- *)

\* The messages with which the Add Order form reports a failure
\* (IntegrityError, sqlite3.Error, Exception).
AdminErrors ==
  {"admin_order_id_exists", "admin_database_error", "admin_unexpected_error"}

\* Mutant: the form's statement is INSERT OR REPLACE and its parameters
\* evaluate.
AddOrderReplaces(p, order_id, status) ==
  /\ pc[p] = "idle"
  /\ inited[p]
  /\ db.tables
  /\ wlock = NoLock
  /\ db' = [db EXCEPT !.orders =
              (order_id :> Order("", "", status, 30, "", 0)) @@ @]
  /\ wdb' = db'
  /\ last' = Call(p, "add_order", status,
                  Str("admin_order_added", order_id, "", 0), "none", FALSE)
  /\ UNCHANGED <<wlock, pc, inited, loc>>

\* Add Order: the parameter tuple calls timedelta, which the app never
\* imports; NameError is raised before cursor.execute and is caught by
\* `except Exception`; finally closes the connection.
AddOrder(p, order_id, status) ==
  /\ pc[p] = "idle"
  /\ inited[p]
  /\ last' = Call(p, "add_order", status,
                  Str("admin_unexpected_error", order_id, "NameError", 0), "none", FALSE)
  /\ UNCHANGED <<db, wdb, wlock, pc, inited, loc>>

\* Add Menu Item: INSERT INTO menu_items, commit, close.
AddMenuItem(p) ==
  /\ pc[p] = "idle"
  /\ inited[p]
  /\ db.tables
  /\ wlock = NoLock
  /\ Len(db.menu) < Len(sample_menu) + MaxMenuAdds
  /\ db' = [db EXCEPT !.menu = Append(@, AdminMenuItem)]
  /\ wdb' = [db EXCEPT !.menu = Append(@, AdminMenuItem)]
  /\ last' = Call(p, "add_menu_item", AdminMenuItem.name,
                  Str("admin_menu_item_added", 0, AdminMenuItem.name, 0), "none", FALSE)
  /\ UNCHANGED <<wlock, pc, inited, loc>>

(* ---------------- the program with a store that never fails ---------------- *)

Next ==
  \E p \in Procs :
    \/ Construct(p)
    \/ PopulateCount(p)
    \/ PopulateOrders(p)
    \/ PopulateMenu(p)
    \/ PopulateCommit(p)
    \/ \E x \in TrackArgs : RunTrack(p, x)
    \/ \E x \in CancelArgs : RunCancel(p, x)
    \/ CancelUpdate(p)
    \/ CancelCommit(p)
    \/ \E x \in FeedbackArgs : RunFeedback(p, x)
    \/ FeedbackInsert(p)
    \/ FeedbackCommit(p)
    \/ \E x \in MenuArgs : RunMenu(p, x)
    \/ \E x \in HistoryArgs : RunHistory(p, x)
    \/ \E x \in RestaurantArgs : RunRestaurant(p, x)
    \/ RunNoTool(p)
    \/ \E n \in UnregisteredNames, x \in UnregisteredArgs : RunUnregistered(p, n, x)
    \/ \E o \in AdminOrderIds, s \in AdminStatuses : AddOrder(p, o, s)
    \/ AddMenuItem(p)

Spec == Init /\ [][Next]_vars

(* ---------------- the program with a store that may fail ---------------- *)

\* The tool's "database error" string (except sqlite3.Error).
DbError(name) == Str("database_error", 0, name, 0)

\* The tool closes its connection in a finally clause.  track_order and
\* cancel_order close it only on the paths that do not raise.
ClosesOnError(name) == name \notin {"track_order", "cancel_order"}

ArgsOf(name) ==
  CASE name = "track_order" -> TrackArgs
    [] name = "cancel_order" -> CancelArgs
    [] name = "submit_feedback" -> FeedbackArgs
    [] name = "get_menu_recommendation" -> MenuArgs
    [] name = "get_order_history" -> HistoryArgs
    [] name = "get_restaurant_info" -> RestaurantArgs

\* The call gets as far as sqlite3.connect.
ReachesStore(name, x) ==
  CASE name = "track_order" -> ParseInt(x) # ValueError
    [] name = "cancel_order" -> cancel_precheck(x) = "select"
    [] name = "submit_feedback" -> feedback_tool(x) = "select"
    [] OTHER -> TRUE

\* The arguments with which the failing calls are made.
FaultArgs(name) ==
  ArgsOf(name) \cap {"1023", " 2042", "1023,5,ok", "pizza", "John", "Pizza"}

\* sqlite3.connect or the tool's first statement raises sqlite3.Error (the
\* file cannot be opened, a table is missing, the database is locked).
\* When the statement raised and no finally clause closes the connection,
\* the connection stays open; when connect raised, none was opened.
CallError(p, name, x) ==
  /\ Begin(p)
  /\ ReachesStore(name, x)
  /\ \E open \in BOOLEAN :
       /\ ClosesOnError(name) => ~open
       /\ Return(p, name, x, DbError(name), open)
  /\ UNCHANGED <<db, wdb, wlock, inited>>

\* A later statement of cancel_order or submit_feedback raises sqlite3.Error.
\* submit_feedback's finally closes the connection (rolling back what it
\* wrote); cancel_order returns with the connection open, and with it the
\* write lock if its UPDATE had run.
StepError(p) ==
  /\ pc[p] \in {"c_update", "c_commit", "f_insert", "f_commit"}
  /\ LET name == IF pc[p] \in {"c_update", "c_commit"}
                 THEN "cancel_order" ELSE "submit_feedback"
     IN  IF ClosesOnError(name)
         THEN /\ Rollback(p)
              /\ Finish(p, name, loc[p].arg, DbError(name))
         ELSE /\ Return(p, name, loc[p].arg, DbError(name), TRUE)
              /\ wlock' = IF wlock = Cur(p) THEN LeakedLock ELSE wlock
              /\ wdb' = IF wlock = Cur(p) THEN db ELSE wdb
              /\ UNCHANGED db
  /\ UNCHANGED inited

\* The connection that was left open holding the write lock is finalized
\* (garbage-collected) and so closed; its transaction is rolled back.
Finalize ==
  /\ wlock = LeakedLock
  /\ wlock' = NoLock
  /\ UNCHANGED <<db, wdb, pc, inited, loc, last>>

\* init_database: a CREATE TABLE raises; it is logged, the connection is
\* closed, and populate_sample_data runs all the same.
ConstructError(p) ==
  /\ pc[p] = "idle"
  /\ Goto(p, "p_count", NoLoc)
  /\ UNCHANGED <<db, wdb, wlock, inited>>

\* populate_sample_data: a statement raises; it is logged and finally
\* closes the connection, rolling back what was inserted.
PopulateError(p) ==
  /\ pc[p] \in {"p_count", "p_orders", "p_menu", "p_commit"}
  /\ Rollback(p)
  /\ InitDone(p, "error")

FaultNext ==
  \/ Next
  \/ \E p \in Procs :
       \/ \E name \in Tools : \E x \in FaultArgs(name) : CallError(p, name, x)
       \/ StepError(p)
       \/ ConstructError(p)
       \/ PopulateError(p)
  \/ Finalize

FaultSpec == Init /\ [][FaultNext]_vars

(* ---------------- get_order_history over stores of many orders ---------------- *)

\* Six orders, each of one of two customers, created at the moments of one
\* of these patterns (distinct, equal in threes, equal in pairs, mixed).
HistoryIds == 1..6
CreatedPatterns ==
  { <<1, 2, 3, 4, 5, 6>>, <<6, 5, 4, 3, 2, 1>>, <<1, 1, 1, 2, 2, 2>>,
    <<1, 1, 2, 2, 3, 3>>, <<3, 1, 2, 3, 1, 2>> }
HistoryCustomers == {"John Doe", "Jane Smith"}

HistoryStores ==
  { [tables |-> TRUE,
     orders |-> [o \in HistoryIds |->
                   [Order(customer[o], "Cheeseburger, Fries, Coke", "preparing",
                          25, "Burger Palace", 1850)
                      EXCEPT !.created = created[o]]],
     menu |-> sample_menu,
     feedback |-> << >>] :
      customer \in [HistoryIds -> HistoryCustomers], created \in CreatedPatterns }

HistoryInit ==
  /\ db \in HistoryStores
  /\ wdb = db
  /\ wlock = NoLock
  /\ pc = [p \in Procs |-> "idle"]
  /\ inited = [p \in Procs |-> TRUE]
  /\ loc = [p \in Procs |-> NoLoc]
  /\ last = NoCall

HistoryNext == \E p \in Procs : \E x \in HistoryArgs : RunHistory(p, x)

HistorySpec == HistoryInit /\ [][HistoryNext]_vars

(* ======================================================================= *)
(* Properties                                                              *)
(* ======================================================================= *)

\* The order id a cancel_order / track_order argument names.
Existing(x) == ParseInt(x) \in DOMAIN db.orders

\* p's call returns in this step without having touched the store.
ReturnsUntouched(p) ==
  /\ pc'[p] = "idle"
  /\ ~last'.open
  /\ last'.p = p
  /\ <<db, wdb, wlock>>' = <<db, wdb, wlock>>

\* C1: a cancel_order call on an order whose status is delivered or
\* cancelled returns the "already delivered" / "already cancelled" message,
\* naming the status the order has, and leaves the store as it was.
C1_CancelOnTerminal ==
  [][\A p \in Procs : \A x \in CancelArgs :
       (/\ cancel_precheck(x) = "select"
        /\ Existing(x)
        /\ db.orders[ParseInt(x)].status \in TerminalStatuses
        /\ RunCancel(p, x))
       => /\ last'.op = "cancel_order"
          /\ last'.ret = Str(IF db.orders[ParseInt(x)].status = "delivered"
                             THEN "already_delivered" ELSE "already_cancelled",
                             ParseInt(x), "", 0)
          /\ ReturnsUntouched(p)]_vars

\* C1 happens: order 3051 is delivered, a cancel_order call on it has just
\* returned "already delivered".
C1_Witness ==
  /\ last.op = "cancel_order"
  /\ last.ret = Str("already_delivered", 3051, "", 0)
  /\ 3051 \in DOMAIN db.orders
  /\ db.orders[3051].status = "delivered"

\* C2: cancel_order on an existing order that is preparing or in transit goes
\* on to update it; when the call returns, the order's stored status is
\* cancelled and the reply is the refund message with the order's total; and
\* a cancel_order on the same order issued after that call has returned gets
\* "already cancelled", the status staying cancelled.
C2_CancelThenCancel ==
  /\ [](last.op = "cancel_order" /\ last.ret.m = "cancel_success"
        => /\ last.ret.n \in DOMAIN db.orders
           /\ db.orders[last.ret.n].status = "cancelled"
           /\ last.ret.v = db.orders[last.ret.n].total)
  /\ [][\A p \in Procs : \A x \in CancelArgs :
          /\ (/\ cancel_precheck(x) = "select"
              /\ Existing(x)
              /\ db.orders[ParseInt(x)].status \in {"preparing", "in_transit"}
              /\ RunCancel(p, x))
             => /\ pc'[p] = "c_update"
                /\ loc'[p].oid = ParseInt(x)
          /\ (/\ cancel_precheck(x) = "select"
              /\ last.op = "cancel_order"
              /\ last.ret.m = "cancel_success"
              /\ last.ret.n = ParseInt(x)
              /\ RunCancel(p, x))
             => /\ last'.ret = Str("already_cancelled", ParseInt(x), "", 0)
                /\ db'.orders[ParseInt(x)].status = "cancelled"
                /\ ReturnsUntouched(p)]_vars

\* C2 happens: a cancel_order call on the preparing order 2042 has returned
\* the refund message for its total, and the order is stored as cancelled.
C2_Witness ==
  /\ last.op = "cancel_order"
  /\ last.ret = Str("cancel_success", 2042, "", 1850)
  /\ db.orders[2042].status = "cancelled"

\* C3: once an order's status is delivered or cancelled, no step of any
\* call, initialization or Admin Panel submission changes the order: its
\* status, its item list, its total and its other columns stay, and the
\* order stays in the store.
C3_TerminalIsFinal ==
  [][\A o \in DOMAIN db.orders :
       db.orders[o].status \in TerminalStatuses
       => /\ o \in DOMAIN db'.orders
          /\ db'.orders[o] = db.orders[o]]_vars

\* C3 happens: with order 2042 cancelled and order 3051 delivered, the Admin
\* Panel's Add Order was submitted for id 3051 with status preparing.
C3_Witness ==
  /\ last.op = "add_order"
  /\ last.ret.n = 3051
  /\ 3051 \in DOMAIN db.orders
  /\ db.orders[3051].status = "delivered"
  /\ db.orders[2042].status = "cancelled"

\* A step of p's init_database / populate_sample_data.
InitStep(p) ==
  \/ Construct(p)
  \/ PopulateCount(p)
  \/ PopulateOrders(p)
  \/ PopulateMenu(p)
  \/ PopulateCommit(p)

\* C4: no step of an initialization that runs on a store holding at least
\* one order changes any row of orders, menu_items or feedback.
C4_InitLeavesData ==
  [][\A p \in Procs :
       (InitStep(p) /\ DOMAIN db.orders # {}) => db' = db]_vars

\* C4 happens: an initialization has just returned on a store in which a
\* seed order had been cancelled and feedback had been given; the order is
\* still cancelled and nothing was seeded twice.
C4_Witness ==
  /\ last.op = "init_database"
  /\ DOMAIN db.orders = DOMAIN sample_orders
  /\ db.orders[2042].status = "cancelled"
  /\ Len(db.feedback) = 1
  /\ Len(db.menu) = Len(sample_menu)

\* x is a submit_feedback argument whose rating part is a number outside 1..5.
RatingOutOfRange(x) ==
  /\ Len(SplitArg(x)) >= 2
  /\ FeedbackRating(x) # ValueError
  /\ (FeedbackRating(x) < 1 \/ FeedbackRating(x) > 5)

\* The submit_feedback arguments with such a rating.
OutOfRangeArgs == {x \in FeedbackArgs : RatingOutOfRange(x)}

\* C5 as claimed: submit_feedback with a numeric rating outside 1..5 returns
\* the rating-range error and inserts no feedback row.
C5_AsClaimed ==
  [][\A p \in Procs : \A x \in OutOfRangeArgs :
       RunFeedback(p, x)
       => /\ last'.ret = Str("rating_out_of_range", 0, "", 0)
          /\ ReturnsUntouched(p)]_vars

\* C5 amended: submit_feedback with a numeric rating outside 1..5 inserts no
\* feedback row and touches the store not at all; it returns the
\* rating-range error when the order id is numeric (whether or not the order
\* exists) and the invalid-input error when it is not.
C5_RatingRejected ==
  [][\A p \in Procs : \A x \in OutOfRangeArgs :
       RunFeedback(p, x)
       => /\ last'.ret = Str(IF FeedbackOrder(x) = ValueError
                             THEN "invalid_id_or_rating"
                             ELSE "rating_out_of_range", 0, "", 0)
          /\ last'.op = "submit_feedback"
          /\ ReturnsUntouched(p)]_vars

\* C5 happens: a rating of 0 for order 77, which does not exist, was
\* answered with the rating-range error, and the feedback table is empty.
C5_Witness ==
  /\ last.op = "submit_feedback"
  /\ last.arg = "77,0,bad"
  /\ last.ret.m = "rating_out_of_range"
  /\ db.tables
  /\ 77 \notin DOMAIN db.orders
  /\ db.feedback = << >>

\* C6: every registered tool gives its caller a string, whatever the
\* argument string.
C6_ToolsReturnStrings ==
  last.op \in Tools => last.ret.t = "str"

\* C7: when a tool function has returned, the connection its call opened is
\* closed.
C7_ConnectionReleased ==
  last.op \in Tools => ~last.open

\* C8: update_order_with_recommendation with an existing order id and an
\* item name matching a menu item ("1023,Caesar Salad") adds the item's price
\* to the order's stored total and appends the item name to its item list,
\* the order's other columns staying.
C8_ItemAdded ==
  [][\A p \in Procs : \A i \in 1..Len(db.menu) :
       (/\ RunUnregistered(p, "update_order_with_recommendation", "1023,Caesar Salad")
        /\ 1023 \in DOMAIN db.orders
        /\ db.menu[i].name = "Caesar Salad")
       => /\ 1023 \in DOMAIN db'.orders
          /\ db'.orders[1023] =
               [db.orders[1023] EXCEPT
                  !.total = @ + db.menu[i].price,
                  !.items = "Margherita Pizza, Garlic Bread, Caesar Salad"]]_vars

\* The operations that are calls of run().
RunOps == Tools \cup UnregisteredNames \cup {"none"}

\* C9: run() never raises: it returns the apology when the dispatcher
\* raised (a tool raised, or the dispatcher failed of itself) and the
\* dispatcher's reply otherwise.
C9_RunNeverRaises ==
  (last.p \in Procs /\ last.op \in RunOps)
  => /\ last.runret \in {"reply", "apology"}
     /\ last.ret.t = "raise" => last.runret = "apology"
     /\ last.ret.t = "str" => last.runret = "reply"

\* C9 happens: a tool raised to the dispatcher and run() returned the apology.
C9_Witness ==
  /\ last.op \in Tools
  /\ last.ret.t = "raise"
  /\ last.runret = "apology"

\* The message for an invalid argument of track_order, cancel_order or
\* submit_feedback; "" when the argument is valid.
InvalidInput(name, x) ==
  CASE name = "track_order" ->
         IF ParseInt(x) = ValueError THEN "invalid_order_id" ELSE ""
    [] name = "cancel_order" ->
         IF x = "" THEN "need_order_id"
         ELSE IF ParseInt(x) = ValueError THEN "invalid_order_id" ELSE ""
    [] name = "submit_feedback" ->
         IF Len(SplitArg(x)) < 2 THEN ""
         ELSE IF FeedbackOrder(x) = ValueError \/ FeedbackRating(x) = ValueError
              THEN "invalid_id_or_rating"
         ELSE IF FeedbackRating(x) < 1 \/ FeedbackRating(x) > 5
              THEN "rating_out_of_range"
         ELSE ""

\* The tools that validate their input.
Validating == {"track_order", "cancel_order", "submit_feedback"}

\* C10: track_order, cancel_order and submit_feedback answer an invalid
\* input (a non-numeric order id or rating, a rating outside 1..5, a missing
\* order id) with its invalid-input message at once: the call returns in
\* the step that makes it, with no connection opened and no statement run,
\* the store and its lock as they were.
C10_InvalidInputNoStore ==
  [][(/\ last' # last
      /\ last'.op \in Validating
      /\ InvalidInput(last'.op, last'.arg) # "")
     => /\ last'.ret = Str(InvalidInput(last'.op, last'.arg), 0, "", 0)
        /\ pc[last'.p] = "idle"
        /\ ReturnsUntouched(last'.p)]_vars

\* C10 happens: cancel_order was called with the non-numeric id "abc" while
\* the other process was in the middle of a call holding a connection.
C10_Witness ==
  /\ last.op = "cancel_order"
  /\ last.arg = "abc"
  /\ last.ret.m = "invalid_order_id"
  /\ \E q \in Procs : q # last.p /\ pc[q] # "idle"

\* The submit_feedback arguments that pass its validation.
ValidFeedbackArgs == {x \in FeedbackArgs : feedback_tool(x) = "select"}

C12_NeverDeleted ==
  [][/\ DOMAIN db.orders \subseteq DOMAIN db'.orders
     /\ Len(db'.feedback) >= Len(db.feedback)
     /\ SubSeq(db'.feedback, 1, Len(db.feedback)) = db.feedback]_vars

\* C12 happens: after a cancellation, two feedback submissions and an Admin
\* Panel submission, the three seeded order ids are all in the store and both
\* feedback rows are stored.
C12_Witness ==
  /\ DOMAIN db.orders = DOMAIN sample_orders
  /\ db.orders[1023].status = "cancelled"
  /\ Len(db.feedback) = 2
  /\ last.op = "add_menu_item"

\* C13: order_id is the key of the orders table, and no step puts a second
\* order under an id that is taken: an order in the store stays the order it
\* is, in every column but status; an Admin Panel Add Order submission with
\* an id that is in the store is answered with an error and leaves the
\* store, that order included, as it was.
C13_UniqueOrderIds ==
  [][/\ \A o \in DOMAIN db.orders :
          /\ o \in DOMAIN db'.orders
          /\ [db'.orders[o] EXCEPT !.status = db.orders[o].status] = db.orders[o]
     /\ \A p \in Procs : \A o \in AdminOrderIds : \A st \in AdminStatuses :
          (o \in DOMAIN db.orders /\ AddOrder(p, o, st))
          => /\ last'.op = "add_order"
             /\ last'.ret.n = o
             /\ last'.ret.m \in AdminErrors
             /\ <<db, wdb, wlock>>' = <<db, wdb, wlock>>]_vars

\* C13 happens: Add Order was submitted with id 3051, which the delivered
\* seed order has; it was answered with an error and the orders are the
\* seeded ones.
C13_Witness ==
  /\ last.op = "add_order"
  /\ last.ret.n = 3051
  /\ last.ret.m \in AdminErrors
  /\ db.orders = sample_orders

\* The orders of the store whose customer name contains x.
Matching(x) == {o \in DOMAIN db.orders : Like(db.orders[o].customer, x)}

\* C14: get_order_history returns the not-found message when no order's
\* customer name contains the given text; otherwise it lists at most 5
\* orders, each once and all of them matching, newest first, and no matching
\* order it leaves out was created later than one it lists (it lists them
\* all when there are no more than 5).
C14_HistoryNewestFive ==
  [][(last' # last /\ last'.op = "get_order_history")
     => LET r == last'.ret
            ids == last'.ret.ids
            hits == Matching(last'.arg)
        IN  IF hits = {}
            THEN r = Str("no_orders_found", 0, last'.arg, 0)
            ELSE /\ r.m = "order_history"
                 /\ Len(ids) <= 5
                 /\ Len(ids) = Min(Cardinality(hits), 5)
                 /\ \A i \in 1..Len(ids) : ids[i] \in hits
                 /\ \A i \in 1..Len(ids) : \A j \in 1..Len(ids) :
                      i < j => /\ ids[i] # ids[j]
                               /\ db.orders[ids[i]].created >= db.orders[ids[j]].created
                 /\ \A o \in hits : \A i \in 1..Len(ids) :
                      (\A j \in 1..Len(ids) : ids[j] # o)
                      => db.orders[o].created <= db.orders[ids[i]].created]_vars

\* C14 happens: six orders match, two of them created at the earliest
\* moment, and the reply lists five.
C14_Witness ==
  /\ last.op = "get_order_history"
  /\ Cardinality(Matching(last.arg)) = 6
  /\ Len(last.ret.ids) = 5
  /\ db.orders[5].created = 1
  /\ db.orders[2].created = 1
  /\ db.orders[1].created = 3

\* C15: track_order's reply for an order in the store carries an ETA part
\* exactly when the order's status is not terminal (minutes remaining, a
\* positive number, or the "arriving momentarily" phrase); for a delivered
\* or cancelled order it carries none.
C15_EtaOnlyWhenActive ==
  (last.op = "track_order" /\ last.ret.m = "status_update")
  => /\ last.ret.s \in TerminalStatuses => last.ret.texts[1] = ""
     /\ last.ret.s \notin TerminalStatuses
          => last.ret.texts[1] \in {"eta_minutes", "any_moment"}
     /\ last.ret.texts[1] = "eta_minutes" <=> last.ret.v > 0

\* The order lists of the seeded orders.
ItemLists == {sample_orders[o].items : o \in DOMAIN sample_orders}

\* items.split(",")[0] of every order list (computed once).
FirstItemTable ==
  [items \in ItemLists |->
     CHOOSE name \in StoreTexts :
       Chars(name) = SplitChars(Chars(items), ",", 1)[1]]

\* The first item an order lists.
FirstItem(items) == FirstItemTable[items]

\* C16: track_order on an order of the store reports the order's status,
\* and when the order's first listed item is the name of a menu item, the
\* reply has that menu item's recommended pairings among its parts.
C16_TrackSuggestsPairings ==
  [][(last' # last /\ last'.op = "track_order" /\ last'.ret.m = "status_update")
     => /\ last'.ret.s = db.orders[last'.ret.n].status
        /\ \A i \in 1..Len(db.menu) :
             db.menu[i].name = FirstItem(db.orders[last'.ret.n].items)
             => \E k \in 1..Len(last'.ret.texts) :
                  last'.ret.texts[k] = db.menu[i].pairings]_vars

\* The tools that only read the store.
ReadOnlyTools ==
  {"track_order", "get_menu_recommendation", "get_order_history",
   "get_restaurant_info"}

\* p takes a step of the call it is in the middle of, at one of the labels.
StepsFrom(p, labels) == pc[p] \in labels /\ pc'[p] # pc[p]

\* C17: a step in which a call of track_order, get_menu_recommendation,
\* get_order_history or get_restaurant_info returns leaves the store
\* unchanged; so does the step in which cancel_order or submit_feedback
\* reads; a later step of a cancel_order call changes at most the status of
\* the order it targets, to cancelled, and nothing else in the store; a later
\* step of a submit_feedback call changes at most the feedback table, by
\* appending the one row it was given, and leaves orders and menu_items.
C17_ToolFrame ==
  [][/\ (last' # last /\ last'.op \in ReadOnlyTools) => db' = db
     /\ (/\ last' # last
         /\ last'.op \in Tools \ ReadOnlyTools
         /\ last'.ret.m \notin {"cancel_success", "feedback_thanks"}) => db' = db
     /\ \A p \in Procs :
          /\ (pc[p] = "idle" /\ pc'[p] \in {"c_update", "f_insert"}) => db' = db
          /\ StepsFrom(p, {"c_update", "c_commit"})
             => \/ db' = db
                \/ /\ loc[p].oid \in DOMAIN db.orders
                   /\ db' = [db EXCEPT !.orders[loc[p].oid].status = "cancelled"]
          /\ StepsFrom(p, {"f_insert", "f_commit"})
             => \/ db' = db
                \/ db' = [db EXCEPT !.feedback =
                            Append(@, [order_id |-> loc[p].oid,
                                       rating |-> loc[p].rating,
                                       comments |-> loc[p].comments])]]_vars

\* C17 happens: cancel_order has cancelled order 1023, and the store differs
\* from the seeded one in that order's status alone.
C17_Witness ==
  /\ last.op = "cancel_order"
  /\ last.ret.m = "cancel_success"
  /\ last.ret.n = 1023
  /\ db.orders = [sample_orders EXCEPT ![1023].status = "cancelled"]
  /\ db.menu = sample_menu
  /\ db.feedback = << >>

\* C18 as claimed: of two cancel_order calls on the same order that run
\* interleaved statement by statement, at most one returns the refund
\* message: no call returns it for an order that another call's commit has
\* already made cancelled.
C18_AsClaimed ==
  [][\A p \in Procs :
       (StepsFrom(p, {"c_commit"}) /\ last'.ret.m = "cancel_success")
       => db.orders[loc[p].oid].status # "cancelled"]_vars

\* C18 amended: a cancel_order call that read a non-terminal status goes on
\* to its update and its commit and returns the refund message, whatever
\* another call on the same order has committed in between (so both of two
\* concurrent calls return it when both read before either commits); a call
\* that reads after a commit returns "already cancelled"; after any of them
\* has committed the stored status is cancelled.
C18_ConcurrentCancels ==
  [][\A p \in Procs :
       /\ StepsFrom(p, {"c_update"})
          => /\ pc'[p] = "c_commit"
             /\ wdb'.orders[loc[p].oid].status = "cancelled"
       /\ StepsFrom(p, {"c_commit"})
          => /\ last'.p = p
             /\ last'.ret = Str("cancel_success", loc[p].oid, "", loc[p].total)
             /\ db'.orders[loc[p].oid].status = "cancelled"
       /\ (/\ pc[p] = "idle"
           /\ last' # last
           /\ last'.p = p
           /\ last'.op = "cancel_order"
           /\ last'.ret.n \in DOMAIN db.orders
           /\ db.orders[last'.ret.n].status = "cancelled")
          => last'.ret.m = "already_cancelled"]_vars

\* C18 happens: two calls read order 1023 as in transit; one has committed
\* and returned the refund message, the order is stored as cancelled, and
\* the other is at its commit, about to return the refund message too.
C18_Witness ==
  \E p \in Procs : \E q \in Procs \ {p} :
    /\ last.p = p
    /\ last.op = "cancel_order"
    /\ last.ret.m = "cancel_success"
    /\ last.ret.n = 1023
    /\ db.orders[1023].status = "cancelled"
    /\ pc[q] = "c_commit"
    /\ loc[q].oid = 1023
    /\ loc[q].status = "in_transit"

\* How many rows of the menu table are the k-th sample menu item.
SampleCopies(d, k) ==
  Cardinality({i \in 1..Len(d.menu) : d.menu[i] = sample_menu[k]})

\* C19: however two initializations interleave, the store holds either no
\* order and no sample menu item, or the sample orders and each sample menu
\* item exactly once: orders and menu items are committed together, never
\* twice; an initialization whose insert fails (it had counted 0 orders, the
\* other committed first) is caught, returns, and changes nothing.
C19_SeededOnce ==
  /\ [](/\ DOMAIN db.orders \in {{}, DOMAIN sample_orders}
        /\ \A k \in 1..Len(sample_menu) :
             SampleCopies(db, k) = IF DOMAIN db.orders = {} THEN 0 ELSE 1)
  /\ [][(last' # last /\ last'.op = "init_database" /\ last'.arg = "error")
        => /\ pc[last'.p] = "p_orders"
           /\ pc'[last'.p] = "idle"
           /\ inited'[last'.p]
           /\ <<db, wdb, wlock>>' = <<db, wdb, wlock>>]_vars

\* C19 happens: both processes are constructed, the one that returned last
\* lost the race (its insert failed), and the store holds the sample orders
\* and the sample menu, once.
C19_Witness ==
  /\ \A p \in Procs : inited[p] /\ pc[p] = "idle"
  /\ last.op = "init_database"
  /\ last.arg = "error"
  /\ db.orders = sample_orders
  /\ db.menu = sample_menu

\* C20: an Admin Panel Add Order submission with an order id that is not in
\* the store puts exactly one new order into it, under that id and with the
\* submitted status, its estimated delivery 30 minutes after the moment of
\* the submission, and reports success.
C20_AddOrderInserts ==
  [][\A p \in Procs : \A o \in AdminOrderIds : \A st \in AdminStatuses :
       (o \notin DOMAIN db.orders /\ AddOrder(p, o, st))
       => /\ DOMAIN db'.orders = DOMAIN db.orders \cup {o}
          /\ db'.orders[o].status = st
          /\ \E now \in Nows : db'.orders[o].eta = now + 30
          /\ \A q \in DOMAIN db.orders : db'.orders[q] = db.orders[q]
          /\ last'.op = "add_order"
          /\ last'.ret.m \notin AdminErrors]_vars

====
